---- MODULE Spec2Model ----
(***************************************************************************)
(* State-machine model of backend/app.py (flashk point-of-sale backend):   *)
(* the users and products tables, the uploads directory, the session       *)
(* tokens with their blocklist, and one action per route handler.          *)
(*                                                                         *)
(* Text (usernames, passwords, file names, URLs) is a tuple of one-        *)
(* character strings, so that strip(), len(), rsplit(), startswith() and   *)
(* the ILIKE pattern match are computed character by character.            *)
(*                                                                         *)
(* The flask-limiter quotas (strict_rate_limit, moderate_rate_limit and    *)
(* the default limits) are not modelled: every request is taken to be      *)
(* within its quota.  Supabase reads and writes succeed, except the write  *)
(* of the product routes in the actions named *_db_failure.                *)
(***************************************************************************)
EXTENDS Integers, Sequences, FiniteSets, TLC

VARIABLES
    users,                 \* rows of the 'users' table
    nextUserId,            \* next serial id of the 'users' table
    products,              \* rows of the 'products' table
    nextProductId,         \* next serial id of the 'products' table
    files,                 \* names of the files in UPLOAD_FOLDER
    nextUuid,              \* next fresh value of uuid.uuid4()
    tokens,                \* access tokens issued by create_access_token
    nextJti,               \* next fresh token identifier
    jwt_blocklist,         \* the module-level set jwt_blocklist
    FAILED_LOGIN_ATTEMPTS, \* the module-level dict FAILED_LOGIN_ATTEMPTS
    now,                   \* time.time(), in seconds
    failedSeen,            \* observer: failed logins seen per client address
    receiptSeen,           \* observer: the receipts in the directory, when written, whether served
    inflight,              \* per worker thread: the handler it is in, its position and locals
    last                   \* observer: the request the last step answered, and its response

vars == <<users, nextUserId, products, nextProductId, files, nextUuid, tokens,
          nextJti, jwt_blocklist, FAILED_LOGIN_ATTEMPTS, now, failedSeen,
          receiptSeen, inflight, last>>

---------------------------------------------------------------------------
(* Bounds of the model *)

MaxUserId == 3
MaxProductId == 2
MaxUuid == 3
MaxJti == 2
MaxTicks == 4

---------------------------------------------------------------------------
(* Program constants *)

MAX_FAILED_ATTEMPTS == 5
LOCKOUT_TIME == 15 * 60
JWT_ACCESS_TOKEN_EXPIRES == 3600

Png == <<"p", "n", "g">>
Jpg == <<"j", "p", "g">>
Jpeg == <<"j", "p", "e", "g">>
Gif == <<"g", "i", "f">>
ALLOWED_EXTENSIONS == {Png, Jpg, Jpeg, Gif}

\* "/api/uploads/", the prefix of every image_url the handlers build
UploadsPrefix == <<"/", "a", "p", "i", "/", "u", "p", "l", "o", "a", "d", "s", "/">>

\* 'receipt_', the prefix of every file generate_receipt writes
ReceiptPrefix == <<"r", "e", "c", "e", "i", "p", "t", "_">>

PdfSuffix == <<".", "p", "d", "f">>

\* the literals of the direct admin check in login
AdminUsername == <<"w", "i", "l", "d", "a", "n", "h", "n", "i", "i", "f">>
AdminPassword == <<"p", "e", "m", "e", "n", "a", "n", "g", "3", "2", "1">>

---------------------------------------------------------------------------
(* Characters and text *)

UpperChars == <<"A", "B", "C", "D", "E", "F", "G", "H", "I", "J", "K", "L", "M",
                "N", "O", "P", "Q", "R", "S", "T", "U", "V", "W", "X", "Y", "Z">>
LowerChars == <<"a", "b", "c", "d", "e", "f", "g", "h", "i", "j", "k", "l", "m",
                "n", "o", "p", "q", "r", "s", "t", "u", "v", "w", "x", "y", "z">>
DigitChars == <<"0", "1", "2", "3", "4", "5", "6", "7", "8", "9">>

\* the characters of the class in is_password_valid's last re.search
SpecialChars == {" ", "!", "@", "#", "$", "%", "^", "&", "*", "(", ")", "_", "+",
                 "-", "=", "[", "]", "{", "}", ";", "'", ":", "\"", "\\", "|",
                 ",", ".", "<", ">", "/", "?"}

Range(s) == {s[i] : i \in 1..Len(s)}

IsUpper(c) == c \in Range(UpperChars)
IsLower(c) == c \in Range(LowerChars)
IsDigit(c) == c \in Range(DigitChars)

\* str.lower() on one character
ToLower(c) ==
    IF IsUpper(c) THEN LowerChars[CHOOSE i \in 1..Len(UpperChars) : UpperChars[i] = c]
    ELSE c

Lower(s) == [i \in 1..Len(s) |-> ToLower(s[i])]

RECURSIVE LStrip(_, _)
LStrip(s, cs) ==
    IF s # <<>> /\ Head(s) \in cs THEN LStrip(Tail(s), cs) ELSE s

RECURSIVE RStrip(_, _)
RStrip(s, cs) ==
    IF s # <<>> /\ s[Len(s)] \in cs THEN RStrip(SubSeq(s, 1, Len(s) - 1), cs) ELSE s

\* str.strip(): whitespace removed at both ends
Strip(s) == RStrip(LStrip(s, {" "}), {" "})

StartsWith(s, p) == Len(p) <= Len(s) /\ SubSeq(s, 1, Len(p)) = p

\* the positions of character c in s
Positions(s, c) == {i \in 1..Len(s) : s[i] = c}

Max(S) == CHOOSE x \in S : \A y \in S : y <= x
Min(S) == CHOOSE x \in S : \A y \in S : x <= y

\* s.split('/')[-1]
LastSegment(s) ==
    IF Positions(s, "/") = {} THEN s
    ELSE SubSeq(s, Max(Positions(s, "/")) + 1, Len(s))

\* s.rsplit('.', 1)[1], for s containing a '.'
Extension(s) == SubSeq(s, Max(Positions(s, ".")) + 1, Len(s))

\* the decimal digit of a fresh identifier, standing for the text of a uuid
IdText(n) == <<DigitChars[n + 1]>>

---------------------------------------------------------------------------
(* Library calls, by what they do *)

\* werkzeug generate_password_hash: a salted PBKDF2 digest of the password;
\* check_password_hash accepts exactly the password the digest was made from
generate_password_hash(password) == <<"pbkdf2:sha256:600000", password>>

check_password_hash(pwhash, password) == pwhash = generate_password_hash(password)

\* the characters werkzeug secure_filename keeps: [A-Za-z0-9_.-]
IsSafeChar(c) == IsUpper(c) \/ IsLower(c) \/ IsDigit(c) \/ c \in {"_", ".", "-"}

\* "_".join(s.split()): runs of whitespace become one "_", none at the ends
RECURSIVE JoinWords(_)
JoinWords(s) ==
    IF s = <<>> THEN <<>>
    ELSE IF Head(s) = " "
         THEN (IF LStrip(s, {" "}) = <<>> THEN <<>>
               ELSE <<"_">> \o JoinWords(LStrip(s, {" "})))
         ELSE <<Head(s)>> \o JoinWords(Tail(s))

\* werkzeug secure_filename: path separators become spaces, whitespace runs
\* become "_", characters outside [A-Za-z0-9_.-] are dropped, and "." and "_"
\* are stripped from both ends
secure_filename(name) ==
    LET spaced == [i \in 1..Len(name) |-> IF name[i] = "/" THEN " " ELSE name[i]]
        joined == JoinWords(LStrip(spaced, {" "}))
        kept == SelectSeq(joined, IsSafeChar)
    IN  RStrip(LStrip(kept, {".", "_"}), {".", "_"})

\* PostgREST ilike('image_url', '%' + filename + '%'): SQL ILIKE, so the
\* match is case-insensitive, "_" in the pattern stands for any one
\* character, and the pattern may match anywhere in the text
MatchesAt(pattern, text, i) ==
    \A j \in 1..Len(pattern) :
        pattern[j] = "_" \/ ToLower(pattern[j]) = ToLower(text[i + j - 1])

ilike(text, filename) ==
    \E i \in 1..(Len(text) - Len(filename) + 1) : MatchesAt(filename, text, i)

---------------------------------------------------------------------------
(* Helper functions of app.py *)

allowed_file(filename) ==
    /\ "." \in Range(filename)
    /\ Lower(Extension(filename)) \in ALLOWED_EXTENSIONS

\* is_password_valid(password)[0]
is_password_valid(password) ==
    /\ Len(password) >= 8
    /\ \E i \in 1..Len(password) : IsUpper(password[i])
    /\ \E i \in 1..Len(password) : IsLower(password[i])
    /\ \E i \in 1..Len(password) : IsDigit(password[i])
    /\ \E i \in 1..Len(password) : password[i] \in SpecialChars

\* the lookup by username seeing only the admin rows
get_user_by_username_among_admins(us, username) ==
    {u \in us : u.username = username /\ u.is_admin}

\* supabase.from_('users').select('*').eq('username', username)
get_user_by_username(us, username) == {u \in us : u.username = username}

\* supabase.from_('users').select('*').eq('id', user_id)
get_user_by_id(us, user_id) == {u \in us : u.id = user_id}

\* response.data[0] of a non-empty result: rows come back in id order
FirstRow(rows) == CHOOSE r \in rows : \A q \in rows : r.id <= q.id

\* record_failed_login(ip_address): the dict it leaves.  No handler of app.py
\* calls it, so FAILED_LOGIN_ATTEMPTS stays as initialised.
record_failed_login(attempts, ip_address, current_time) ==
    IF ip_address \in DOMAIN attempts
    THEN [attempts EXCEPT ![ip_address] = <<attempts[ip_address][1] + 1, current_time>>]
    ELSE [a \in DOMAIN attempts \cup {ip_address} |->
            IF a = ip_address THEN <<1, current_time>> ELSE attempts[a]]

\* the rows of 'products' whose image_url matches ilike('%filename%');
\* a NULL image_url matches nothing
ProductsLike(ps, filename) ==
    {q \in ps : q.image_url # <<>> /\ ilike(q.image_url, filename)}

\* delete_product without the query for other products: the image file of
\* the deleted row is always removed
delete_product_unchecked(ps, fs, product_id) ==
    LET product == {p \in ps : p.id = product_id}
        image_url == (FirstRow(product)).image_url
    IN  IF product = {} THEN [products |-> ps, files |-> fs]
        ELSE IF image_url # <<>>
             THEN [products |-> ps \ product, files |-> fs \ {LastSegment(image_url)}]
             ELSE [products |-> ps \ product, files |-> fs]

\* delete_product(product_id): the products table and uploads directory it
\* leaves.  The row is deleted; its image file is removed unless another row's
\* image_url matches the file name.
delete_product(ps, fs, product_id) ==
    LET product == {p \in ps : p.id = product_id}
        rest == ps \ product
        image_url == (FirstRow(product)).image_url
        filename == LastSegment(image_url)
        other_products == {q \in ProductsLike(rest, filename) : q.id # product_id}
    IN  IF product = {} THEN [products |-> ps, files |-> fs]
        ELSE IF image_url # <<>> /\ other_products = {}
             THEN [products |-> rest, files |-> fs \ {filename}]
             ELSE [products |-> rest, files |-> fs]

\* cleanup_old_images without its receipt branch: receipt_ files are treated
\* as any other file
cleanup_keeping_receipts(ps, fs) ==
    {filename \in fs : ~(allowed_file(filename) /\ ProductsLike(ps, filename) = {})}

\* cleanup_old_images that stops after the first file it removes
cleanup_first_only(ps, fs) ==
    LET doomed == {filename \in fs :
                     \/ StartsWith(filename, ReceiptPrefix)
                     \/ allowed_file(filename) /\ ProductsLike(ps, filename) = {}}
    IN  IF doomed = {} THEN fs
        ELSE fs \ {CHOOSE filename \in doomed : \A g \in doomed : Len(filename) <= Len(g)}

\* cleanup_old_images(): the uploads directory it leaves.  Every file named
\* receipt_* goes; a file with an allowed image extension goes when no
\* product's image_url names it nor matches it.
cleanup_old_images(ps, fs) ==
    LET active_images == {LastSegment(p.image_url) : p \in {q \in ps : q.image_url # <<>>}}
        removed(filename) ==
            \/ StartsWith(filename, ReceiptPrefix)
            \/ /\ allowed_file(filename)
               /\ filename \notin active_images
               /\ ProductsLike(ps, filename) = {}
    IN  {filename \in fs : ~removed(filename)}

\* the loop of delete_user leaving after the first of the user's products
DeleteProducts_first_only(ps, fs, ids) ==
    IF ids = {} THEN [products |-> ps, files |-> fs]
    ELSE delete_product(ps, fs, Min(ids))

\* the loop of delete_user over the user's products: delete_product on each,
\* in the order the rows come back (by id)
RECURSIVE DeleteProducts(_, _, _)
DeleteProducts(ps, fs, ids) ==
    IF ids = {} THEN [products |-> ps, files |-> fs]
    ELSE LET d == delete_product(ps, fs, Min(ids))
         IN  DeleteProducts(d.products, d.files, ids \ {Min(ids)})

---------------------------------------------------------------------------
(* Session tokens *)

\* a request that carries no Authorization header
NoToken == [jti |-> 0, identity |-> 0, is_admin |-> FALSE, exp |-> 0]

\* create_access_token(identity, additional_claims={"is_admin": ...})
create_access_token(identity, is_admin) ==
    [jti |-> nextJti, identity |-> identity, is_admin |-> is_admin,
     exp |-> now + JWT_ACCESS_TOKEN_EXPIRES]

\* the blocklist loader looking up the token's subject in place of its jti
blocklist_by_identity(jwt_payload) == jwt_payload.identity \in jwt_blocklist

\* @jwt.token_in_blocklist_loader
check_if_token_in_blocklist(jwt_payload) == jwt_payload.jti \in jwt_blocklist

\* verify_jwt_in_request(): "ok", or the error code of the loader that
\* answers 401.  The token is decoded (and its expiry checked) before the
\* blocklist loader is consulted.
verify_jwt_in_request(t) ==
    IF t = NoToken THEN "authorization_required"
    ELSE IF now >= t.exp THEN "token_expired"
    ELSE IF check_if_token_in_blocklist(t) THEN "token_revoked"
    ELSE "ok"

\* the gate reading the is_admin claim of the token in place of the stored row
AdminGate_by_claim(t) == t.is_admin

\* admin_required(): the decorator lets the request through
AdminGate(t) ==
    LET rows == get_user_by_id(users, t.identity)
    IN  rows # {} /\ (FirstRow(rows)).is_admin

---------------------------------------------------------------------------
(* Requests: the inputs the handlers are driven with *)

Bob == <<"b", "o", "b">>
BobPadded == <<" ", "b", "o", "b", " ">>
Ab == <<"a", "b">>
Usernames == {AdminUsername, Bob, BobPadded, Ab}

StrongPassword == <<"A", "b", "c", "d", "e", "f", "1", "!">>
WeakPassword == <<"a", "b", "c">>
Passwords == {AdminPassword, StrongPassword, WeakPassword, <<>>}

ClientAddrs == {"10.0.0.1", "10.0.0.2"}

\* the observer's record of a request and its response; rows is the list a
\* listing route returns, file the name a retrieval asks for
Response(op, status, msg, t, arg, username, password, ip) ==
    [op |-> op, status |-> status, msg |-> msg, jti |-> t.jti, arg |-> arg,
     username |-> username, password |-> password, ip |-> ip, rows |-> {},
     file |-> <<>>]

\* the 401 of a request whose token verify_jwt_in_request refuses
Unauthorized(op, t, arg) ==
    /\ last' = Response(op, 401, verify_jwt_in_request(t), t, arg, <<>>, <<>>, "")
    /\ UNCHANGED <<users, nextUserId, products, nextProductId, files, nextUuid,
                   tokens, nextJti, jwt_blocklist, FAILED_LOGIN_ATTEMPTS, now,
                   failedSeen, receiptSeen, inflight>>

\* the 403 of admin_required
Forbidden(op, t, arg) ==
    /\ last' = Response(op, 403, "Admin access required", t, arg, <<>>, <<>>, "")
    /\ UNCHANGED <<users, nextUserId, products, nextProductId, files, nextUuid,
                   tokens, nextJti, jwt_blocklist, FAILED_LOGIN_ATTEMPTS, now,
                   failedSeen, receiptSeen, inflight>>

\* a response that changes nothing
Answer(op, status, msg, t, arg) ==
    /\ last' = Response(op, status, msg, t, arg, <<>>, <<>>, "")
    /\ UNCHANGED <<users, nextUserId, products, nextProductId, files, nextUuid,
                   tokens, nextJti, jwt_blocklist, FAILED_LOGIN_ATTEMPTS, now,
                   failedSeen, receiptSeen, inflight>>

Presented == tokens \cup {NoToken}

\* observer: the records of the receipts that are still in the directory fs
StillThere(seen, fs) == {r \in seen : r.name \in fs}

\* the threads of the server that take requests at the same time
Workers == {"w1", "w2"}

\* a thread that is in no handler.  The fields are the local variables of
\* the handlers that run step by step: pc is the call the thread makes next.
Idle ==
    [op |-> "idle", pc |-> "idle", t |-> NoToken, arg |-> 0, name |-> <<>>,
     price |-> [present |-> FALSE, val |-> <<>>], image_url |-> <<>>,
     old_image_url |-> <<>>, product_id |-> 0, pending |-> {}, user |-> {},
     active_images |-> {}, listing |-> {}, filename |-> <<>>]

\* the observer's value when the last step answered no request
NoRequest == Response("none", 0, "", NoToken, 0, <<>>, <<>>, "")

---------------------------------------------------------------------------
(* Initial state: the process has started as __main__, which seeds the     *)
(* default admin; no product, no upload, no token issued.                  *)

Init ==
    /\ users = {[id |-> 1, username |-> AdminUsername,
                 password |-> generate_password_hash(AdminPassword),
                 is_admin |-> TRUE]}
    /\ nextUserId = 2
    /\ products = {}
    /\ nextProductId = 1
    /\ files = {}
    /\ nextUuid = 1
    /\ tokens = {}
    /\ nextJti = 1
    /\ jwt_blocklist = {}
    /\ FAILED_LOGIN_ATTEMPTS = <<>>
    /\ now = 0
    /\ failedSeen = [ip \in ClientAddrs |-> [n |-> 0, first |-> 0, latest |-> 0]]
    /\ receiptSeen = {}
    /\ inflight = [w \in Workers |-> Idle]
    /\ last = NoRequest

---------------------------------------------------------------------------
(* POST /api/register and POST /api/login *)

\* a user_data row with is_admin set
registered_user_admin(id, username, password) ==
    [id |-> id, username |-> username, password |-> generate_password_hash(password),
     is_admin |-> TRUE]

\* the user_data row register inserts
registered_user(id, username, password) ==
    [id |-> id, username |-> username, password |-> generate_password_hash(password),
     is_admin |-> FALSE]

register(username_in, password) ==
    LET username == Strip(username_in)
        R(status, msg) == Response("register", status, msg, NoToken, 0, username_in, password, "")
        Reject(status, msg) ==
            /\ last' = R(status, msg)
            /\ UNCHANGED <<users, nextUserId, products, nextProductId, files, nextUuid,
                           tokens, nextJti, jwt_blocklist, FAILED_LOGIN_ATTEMPTS, now,
                           failedSeen, receiptSeen, inflight>>
    IN  IF username = <<>> \/ password = <<>>
        THEN Reject(400, "Username and password are required")
        ELSE IF Len(username) < 3 \/ Len(username) > 50
        THEN Reject(400, "Username must be between 3 and 50 characters")
        ELSE IF get_user_by_username(users, username) # {}
        THEN Reject(409, "Username already exists")
        ELSE /\ nextUserId <= MaxUserId
             /\ nextJti <= MaxJti
             /\ users' = users \cup {registered_user(nextUserId, username, password)}
             /\ nextUserId' = nextUserId + 1
             /\ tokens' = tokens \cup {create_access_token(
                                         nextUserId,
                                         (registered_user(nextUserId, username,
                                                          password)).is_admin)}
             /\ nextJti' = nextJti + 1
             /\ last' = R(201, "User registered successfully")
             /\ UNCHANGED <<products, nextProductId, files, nextUuid, jwt_blocklist,
                            FAILED_LOGIN_ATTEMPTS, now, failedSeen, receiptSeen, inflight>>

\* what login answers for a request body, given the users table: the status,
\* the error text, and for a 200 the identity and is_admin claim of the token
login_response(us, username_in, password) ==
    LET username == Strip(username_in)
        rows == get_user_by_username(us, username)
        user == FirstRow(rows)
        Err(status, msg) == [status |-> status, msg |-> msg, identity |-> 0, is_admin |-> FALSE]
    IN  IF username = <<>> \/ password = <<>>
        THEN Err(400, "Username and password are required")
        ELSE IF username = AdminUsername /\ password = AdminPassword
        THEN (IF rows = {} THEN Err(500, "Admin user not found")
              ELSE [status |-> 200, msg |-> "", identity |-> user.id, is_admin |-> TRUE])
        ELSE IF rows = {}
        THEN Err(401, "Invalid username or password")
        ELSE IF check_password_hash(user.password, password)
        THEN [status |-> 200, msg |-> "", identity |-> user.id, is_admin |-> user.is_admin]
        ELSE Err(401, "Invalid username or password")

\* observer: the failed logins (401) of one client address that fall within
\* LOCKOUT_TIME of the first of them, counted up to MAX_FAILED_ATTEMPTS
SeeFailure(seen, ip) ==
    IF seen[ip].n > 0 /\ now - seen[ip].first < LOCKOUT_TIME
    THEN [seen EXCEPT ![ip].n = IF @ < MAX_FAILED_ATTEMPTS THEN @ + 1 ELSE @,
                      ![ip].latest = now]
    ELSE [seen EXCEPT ![ip] = [n |-> 1, first |-> now, latest |-> now]]

login(ip, username_in, password) ==
    LET r == login_response(users, username_in, password)
    IN  /\ last' = Response("login", r.status, r.msg, NoToken, 0, username_in, password, ip)
        /\ IF r.status = 200
           THEN /\ nextJti <= MaxJti
                /\ tokens' = tokens \cup {create_access_token(r.identity, r.is_admin)}
                /\ nextJti' = nextJti + 1
           ELSE UNCHANGED <<tokens, nextJti>>
        /\ failedSeen' = IF r.status = 401 THEN SeeFailure(failedSeen, ip) ELSE failedSeen
        /\ UNCHANGED <<users, nextUserId, products, nextProductId, files, nextUuid,
                       jwt_blocklist, FAILED_LOGIN_ATTEMPTS, now, receiptSeen, inflight>>

---------------------------------------------------------------------------
(* POST /api/logout and GET /api/products *)

\* logout is not among the routes of app.py; it is modelled from the
\* specification: revoke(token) adds its identifier to the revocation set
logout(t) ==
    IF verify_jwt_in_request(t) # "ok" THEN Unauthorized("logout", t, 0)
    ELSE /\ jwt_blocklist' = jwt_blocklist \cup {t.jti}
         /\ last' = Response("logout", 200, "", t, 0, <<>>, <<>>, "")
         /\ UNCHANGED <<users, nextUserId, products, nextProductId, files, nextUuid,
                        tokens, nextJti, FAILED_LOGIN_ATTEMPTS, now, failedSeen, receiptSeen, inflight>>

\* the listing query without its filter on user_id
products_of_all_users(ps, user_id) == ps

\* select('*, users(username)').eq('user_id', user_id)
products_of_user(ps, user_id) == {p \in ps : p.user_id = user_id}

get_products(t) ==
    IF verify_jwt_in_request(t) # "ok" THEN Unauthorized("get_products", t, 0)
    ELSE /\ last' = [Response("get_products", 200, "", t, 0, <<>>, <<>>, "")
                       EXCEPT !.rows = products_of_user(products, t.identity)]
         /\ UNCHANGED <<users, nextUserId, products, nextProductId, files, nextUuid,
                        tokens, nextJti, jwt_blocklist, FAILED_LOGIN_ATTEMPTS, now,
                        failedSeen, receiptSeen, inflight>>

\* time passes
Tick ==
    /\ now + LOCKOUT_TIME <= MaxTicks * LOCKOUT_TIME
    /\ now' = now + LOCKOUT_TIME
    /\ last' = NoRequest
    /\ UNCHANGED <<users, nextUserId, products, nextProductId, files, nextUuid,
                   tokens, nextJti, jwt_blocklist, FAILED_LOGIN_ATTEMPTS, failedSeen, receiptSeen, inflight>>

---------------------------------------------------------------------------
(* The admin routes over users *)

Absent == [present |-> FALSE, val |-> <<>>]
Given(v) == [present |-> TRUE, val |-> v]

add_user(t, username, password, is_admin) ==
    LET Reject(status, msg) == Answer("add_user", status, msg, t, 0)
    IN  IF verify_jwt_in_request(t) # "ok" THEN Unauthorized("add_user", t, 0)
        ELSE IF ~AdminGate(t) THEN Forbidden("add_user", t, 0)
        ELSE IF username = <<>> \/ password = <<>>
        THEN Reject(400, "Username and password are required")
        ELSE IF get_user_by_username(users, username) # {}
        THEN Reject(409, "Username already exists")
        ELSE /\ nextUserId <= MaxUserId
             /\ users' = users \cup {[id |-> nextUserId, username |-> username,
                                      password |-> generate_password_hash(password),
                                      is_admin |-> is_admin]}
             /\ nextUserId' = nextUserId + 1
             /\ last' = Response("add_user", 201, "", t, nextUserId, <<>>, <<>>, "")
             /\ UNCHANGED <<products, nextProductId, files, nextUuid, tokens, nextJti,
                            jwt_blocklist, FAILED_LOGIN_ATTEMPTS, now, failedSeen, receiptSeen, inflight>>

\* update_data of update_user applied to a row: only the fields the request
\* carries change; an empty password is not a change
UpdatedUser(u, username, password, is_admin) ==
    [id |-> u.id,
     username |-> IF username.present THEN username.val ELSE u.username,
     password |-> IF password.present /\ password.val # <<>>
                  THEN generate_password_hash(password.val) ELSE u.password,
     is_admin |-> IF is_admin.present THEN is_admin.val ELSE u.is_admin]

update_user(t, user_id, username, password, is_admin) ==
    LET Reject(status, msg) == Answer("update_user", status, msg, t, user_id)
        rows == get_user_by_id(users, user_id)
        existing == get_user_by_username(users, username.val)
        has_update == \/ username.present
                      \/ (password.present /\ password.val # <<>>)
                      \/ is_admin.present
    IN  IF verify_jwt_in_request(t) # "ok" THEN Unauthorized("update_user", t, user_id)
        ELSE IF ~AdminGate(t) THEN Forbidden("update_user", t, user_id)
        ELSE IF rows = {} THEN Reject(404, "User not found")
        ELSE IF username.present /\ existing # {} /\ (FirstRow(existing)).id # user_id
        THEN Reject(409, "Username already exists")
        ELSE IF ~has_update THEN Reject(200, "No changes to update")
        ELSE /\ users' = (users \ rows)
                            \cup {UpdatedUser(u, username, password, is_admin) : u \in rows}
             /\ last' = Response("update_user", 200, "", t, user_id, <<>>, <<>>, "")
             /\ UNCHANGED <<nextUserId, products, nextProductId, files, nextUuid, tokens,
                            nextJti, jwt_blocklist, FAILED_LOGIN_ATTEMPTS, now,
                            failedSeen, receiptSeen, inflight>>

\* the last-admin check with the comparison off by one
LastAdminCheck_strict(user, admins) == user.is_admin /\ Cardinality(admins) < 1

\* the last-admin check of delete_user: the request is refused
LastAdminCheck(user, admins) == user.is_admin /\ Cardinality(admins) <= 1

delete_user(t, user_id) ==
    LET Reject(status, msg) == Answer("delete_user", status, msg, t, user_id)
        rows == get_user_by_id(users, user_id)
        user == FirstRow(rows)
        admins == {u \in users : u.is_admin}
        owned == {p.id : p \in {q \in products : q.user_id = user_id}}
        d == DeleteProducts(products, files, owned)
    IN  IF verify_jwt_in_request(t) # "ok" THEN Unauthorized("delete_user", t, user_id)
        ELSE IF ~AdminGate(t) THEN Forbidden("delete_user", t, user_id)
        ELSE IF rows = {} THEN Reject(404, "User not found")
        ELSE IF LastAdminCheck(user, admins)
        THEN Reject(400, "Cannot delete the last admin user")
        ELSE /\ users' = users \ rows
             /\ products' = d.products
             /\ files' = cleanup_old_images(d.products, d.files)
             /\ receiptSeen' = StillThere(receiptSeen, files')
             /\ last' = Response("delete_user", 200, "User deleted successfully", t,
                                 user_id, <<>>, <<>>, "")
             /\ UNCHANGED <<nextUserId, nextProductId, nextUuid, tokens, nextJti,
                            jwt_blocklist, FAILED_LOGIN_ATTEMPTS, now, failedSeen, inflight>>

\* GET /api/admin/users: the rows, without their password hashes
get_all_users(t) ==
    IF verify_jwt_in_request(t) # "ok" THEN Unauthorized("get_all_users", t, 0)
    ELSE IF ~AdminGate(t) THEN Forbidden("get_all_users", t, 0)
    ELSE /\ last' = [Response("get_all_users", 200, "", t, 0, <<>>, <<>>, "")
                       EXCEPT !.rows = {[id |-> u.id, username |-> u.username,
                                         is_admin |-> u.is_admin] : u \in users}]
         /\ UNCHANGED <<users, nextUserId, products, nextProductId, files, nextUuid,
                        tokens, nextJti, jwt_blocklist, FAILED_LOGIN_ATTEMPTS, now,
                        failedSeen, receiptSeen, inflight>>

\* GET /api/admin/products: every row of the products table
get_all_products(t) ==
    IF verify_jwt_in_request(t) # "ok" THEN Unauthorized("get_all_products", t, 0)
    ELSE IF ~AdminGate(t) THEN Forbidden("get_all_products", t, 0)
    ELSE /\ last' = [Response("get_all_products", 200, "", t, 0, <<>>, <<>>, "")
                       EXCEPT !.rows = products]
         /\ UNCHANGED <<users, nextUserId, products, nextProductId, files, nextUuid,
                        tokens, nextJti, jwt_blocklist, FAILED_LOGIN_ATTEMPTS, now,
                        failedSeen, receiptSeen, inflight>>

\* OPTIONS /api/admin/users/<user_id> and OPTIONS /api/admin/products/<id>:
\* the handlers carry neither jwt_required nor admin_required and answer
\* 204 with an empty body, whatever the request presents.  Flask also
\* answers OPTIONS by itself (200) on the rule of the DELETE handler of the
\* same path; which rule the router picks is left open.
admin_users_options(t, user_id) ==
    \E status \in {200, 204} : Answer("admin_users_options", status, "", t, user_id)

admin_products_options(t, product_id) ==
    \E status \in {200, 204} : Answer("admin_products_options", status, "", t, product_id)

---------------------------------------------------------------------------
(* The product routes *)

IsDigits(s) == s # <<>> /\ \A i \in 1..Len(s) : IsDigit(s[i])

DigitValue(c) == (CHOOSE i \in 1..Len(DigitChars) : DigitChars[i] = c) - 1

RECURSIVE Decimal(_)
Decimal(s) == IF s = <<>> THEN 0 ELSE 10 * Decimal(SubSeq(s, 1, Len(s) - 1)) + DigitValue(s[Len(s)])

\* float(text) for the request texts used here: a decimal integer with an
\* optional sign, the literal "nan", or a ValueError (ok = FALSE)
ParseFloat(text) ==
    IF IsDigits(text) THEN [ok |-> TRUE, nan |-> FALSE, val |-> Decimal(text)]
    ELSE IF text # <<>> /\ Head(text) = "-" /\ IsDigits(Tail(text))
    THEN [ok |-> TRUE, nan |-> FALSE, val |-> 0 - Decimal(Tail(text))]
    ELSE IF Lower(text) = <<"n", "a", "n">> THEN [ok |-> TRUE, nan |-> TRUE, val |-> 0]
    ELSE [ok |-> FALSE, nan |-> FALSE, val |-> 0]

\* the test price < -1 in place of price < 0
IsNegative_below_minus_one(price) == ~price.nan /\ price.val < 0 - 1

\* price < 0, which is False for nan
IsNegative(price) == ~price.nan /\ price.val < 0

\* the stored value of a parsed price
StoredPrice(price) == [nan |-> price.nan, val |-> price.val]

\* secure_filename(str(uuid.uuid4()) + '_' + file.filename)
UploadName(uuid, filename) == secure_filename(IdText(uuid) \o <<"_">> \o filename)

ImageUrl(filename) == UploadsPrefix \o filename

\* add_product when create_product fails after the image was saved: the insert
\* returns no data ("no_data") or raises ("raises").  Both branches remove
\* the saved file and answer 500; the sweep is not reached.
add_product_db_failure(t, name, price_text, filename, outcome) ==
    LET Reject(status, msg) == Answer("add_product", status, msg, t, 0)
        price == ParseFloat(price_text)
        saved == filename # <<>>
        stored == UploadName(nextUuid, filename)
        image_url == IF saved THEN ImageUrl(stored) ELSE <<>>
        written == IF saved THEN files \cup {stored} ELSE files
    IN  IF verify_jwt_in_request(t) # "ok" THEN Unauthorized("add_product", t, 0)
        ELSE IF Strip(name) = <<>> THEN Reject(400, "Product name is required")
        ELSE IF ~price.ok THEN Reject(400, "Invalid price format")
        ELSE IF IsNegative(price) THEN Reject(400, "Price cannot be negative")
        ELSE IF saved /\ ~allowed_file(filename) THEN Reject(400, "Invalid file type")
        ELSE /\ saved => nextUuid <= MaxUuid
             /\ files' = IF image_url # <<>> THEN written \ {LastSegment(image_url)}
                          ELSE written
             /\ nextUuid' = IF saved THEN nextUuid + 1 ELSE nextUuid
             /\ last' = Response("add_product", 500,
                                 IF outcome = "no_data"
                                 THEN "Failed to create product in database"
                                 ELSE "Database error occurred", t, 0, <<>>, <<>>, "")
             /\ UNCHANGED <<users, nextUserId, products, nextProductId, tokens, nextJti,
                            jwt_blocklist, FAILED_LOGIN_ATTEMPTS, now, failedSeen,
                            receiptSeen, inflight>>

\* A price of nan passes the test price < 0 and cannot be written as JSON:
\* the insert raises.
add_product(t, name, price_text, filename) ==
    LET Reject(status, msg) == Answer("add_product", status, msg, t, 0)
        price == ParseFloat(price_text)
        saved == filename # <<>>
        stored == UploadName(nextUuid, filename)
        image_url == IF saved THEN ImageUrl(stored) ELSE <<>>
        row == [id |-> nextProductId, name |-> Strip(name), price |-> StoredPrice(price),
                image_url |-> image_url, user_id |-> t.identity]
    IN  IF verify_jwt_in_request(t) # "ok" THEN Unauthorized("add_product", t, 0)
        ELSE IF Strip(name) = <<>> THEN Reject(400, "Product name is required")
        ELSE IF ~price.ok THEN Reject(400, "Invalid price format")
        ELSE IF IsNegative(price) THEN Reject(400, "Price cannot be negative")
        ELSE IF saved /\ ~allowed_file(filename) THEN Reject(400, "Invalid file type")
        ELSE IF price.nan
        THEN add_product_db_failure(t, name, price_text, filename, "raises")
        ELSE /\ nextProductId <= MaxProductId
             /\ saved => nextUuid <= MaxUuid
             /\ products' = products \cup {row}
             /\ nextProductId' = nextProductId + 1
             /\ files' = cleanup_old_images(products \cup {row},
                                            IF saved THEN files \cup {stored} ELSE files)
             /\ nextUuid' = IF saved THEN nextUuid + 1 ELSE nextUuid
             /\ receiptSeen' = StillThere(receiptSeen, files')
             /\ last' = Response("add_product", 201, "Product added successfully", t,
                                 nextProductId, <<>>, <<>>, "")
             /\ UNCHANGED <<users, nextUserId, tokens, nextJti, jwt_blocklist,
                            FAILED_LOGIN_ATTEMPTS, now, failedSeen, inflight>>

\* update_data of update_product applied to a row
UpdatedProduct(p, name, price, new_image_url) ==
    [id |-> p.id,
     name |-> IF name.present THEN name.val ELSE p.name,
     price |-> IF price.present THEN StoredPrice(ParseFloat(price.val)) ELSE p.price,
     image_url |-> IF new_image_url # <<>> THEN new_image_url ELSE p.image_url,
     user_id |-> p.user_id]

\* update_product when the update of the row fails after the new image was
\* saved.  When it returns no data the handler removes the new file (703-710);
\* when it raises, the handler's only except clause (729) answers 500 with
\* the text of the exception and the new file stays.  The row, the old image
\* and the sweep are not touched.
\* str(e) in "except Exception as e": the text the raised exception carries,
\* which the handler did not choose
ExceptionText == "str(e)"

update_product_db_failure(t, product_id, name, price, filename, outcome) ==
    LET Reject(status, msg) == Answer("update_product", status, msg, t, product_id)
        rows == {p \in products : p.id = product_id /\ p.user_id = t.identity}
        parsed == ParseFloat(price.val)
        saved == filename # <<>> /\ allowed_file(filename)
        stored == UploadName(nextUuid, filename)
        new_image_url == IF saved THEN ImageUrl(stored) ELSE <<>>
        written == IF saved THEN files \cup {stored} ELSE files
    IN  IF verify_jwt_in_request(t) # "ok" THEN Unauthorized("update_product", t, product_id)
        ELSE IF rows = {} THEN Reject(404, "Product not found or unauthorized")
        ELSE IF price.present /\ ~parsed.ok THEN Reject(400, "Invalid price format")
        ELSE IF price.present /\ IsNegative(parsed) THEN Reject(400, "Price cannot be negative")
        ELSE IF ~(name.present \/ price.present \/ saved)
        THEN Reject(200, "No changes to update")
        ELSE /\ saved => nextUuid <= MaxUuid
             /\ files' = IF outcome = "no_data" /\ new_image_url # <<>>
                          THEN written \ {LastSegment(new_image_url)}
                          ELSE written
             /\ nextUuid' = IF saved THEN nextUuid + 1 ELSE nextUuid
             /\ last' = Response("update_product", 500,
                                 IF outcome = "no_data" THEN "Failed to update product"
                                 ELSE ExceptionText, t, product_id,
                                 <<>>, <<>>, "")
             /\ UNCHANGED <<users, nextUserId, products, nextProductId, tokens, nextJti,
                            jwt_blocklist, FAILED_LOGIN_ATTEMPTS, now, failedSeen,
                            receiptSeen, inflight>>

\* A price of nan passes the test price < 0 and cannot be written as JSON:
\* the update raises.
update_product(t, product_id, name, price, filename) ==
    LET Reject(status, msg) == Answer("update_product", status, msg, t, product_id)
        rows == {p \in products : p.id = product_id /\ p.user_id = t.identity}
        parsed == ParseFloat(price.val)
        saved == filename # <<>> /\ allowed_file(filename)
        stored == UploadName(nextUuid, filename)
        new_image_url == IF saved THEN ImageUrl(stored) ELSE <<>>
        old_image_url == IF saved THEN (FirstRow(rows)).image_url ELSE <<>>
        updated == {UpdatedProduct(p, name, price, new_image_url) :
                       p \in {q \in products : q.id = product_id}}
        after == {p \in products : p.id # product_id} \cup updated
        written == IF saved THEN files \cup {stored} ELSE files
        replaced == IF old_image_url # <<>> THEN written \ {LastSegment(old_image_url)}
                    ELSE written
    IN  IF verify_jwt_in_request(t) # "ok" THEN Unauthorized("update_product", t, product_id)
        ELSE IF rows = {} THEN Reject(404, "Product not found or unauthorized")
        ELSE IF price.present /\ ~parsed.ok THEN Reject(400, "Invalid price format")
        ELSE IF price.present /\ IsNegative(parsed) THEN Reject(400, "Price cannot be negative")
        ELSE IF ~(name.present \/ price.present \/ saved)
        THEN Reject(200, "No changes to update")
        ELSE IF price.present /\ parsed.nan
        THEN update_product_db_failure(t, product_id, name, price, filename, "raises")
        ELSE /\ saved => nextUuid <= MaxUuid
             /\ products' = after
             /\ files' = cleanup_old_images(after, replaced)
             /\ nextUuid' = IF saved THEN nextUuid + 1 ELSE nextUuid
             /\ receiptSeen' = StillThere(receiptSeen, files')
             /\ last' = Response("update_product", 200, "Product updated successfully", t,
                                 product_id, <<>>, <<>>, "")
             /\ UNCHANGED <<users, nextUserId, nextProductId, tokens, nextJti,
                            jwt_blocklist, FAILED_LOGIN_ATTEMPTS, now, failedSeen, inflight>>

\* the tail shared by the two delete routes: delete_product, then the sweep
DeleteAndSweep(op, t, product_id) ==
    LET d == delete_product(products, files, product_id)
    IN  /\ products' = d.products
        /\ files' = cleanup_old_images(d.products, d.files)
        /\ receiptSeen' = StillThere(receiptSeen, files')
        /\ last' = Response(op, 200, "Product deleted successfully", t, product_id,
                            <<>>, <<>>, "")
        /\ UNCHANGED <<users, nextUserId, nextProductId, nextUuid, tokens, nextJti,
                       jwt_blocklist, FAILED_LOGIN_ATTEMPTS, now, failedSeen, inflight>>

delete_user_product(t, product_id) ==
    LET rows == {p \in products : p.id = product_id /\ p.user_id = t.identity}
    IN  IF verify_jwt_in_request(t) # "ok"
        THEN Unauthorized("delete_user_product", t, product_id)
        ELSE IF rows = {}
        THEN Answer("delete_user_product", 404, "Product not found or unauthorized", t,
                    product_id)
        ELSE DeleteAndSweep("delete_user_product", t, product_id)

admin_delete_product(t, product_id) ==
    LET rows == {p \in products : p.id = product_id}
    IN  IF verify_jwt_in_request(t) # "ok"
        THEN Unauthorized("admin_delete_product", t, product_id)
        ELSE IF ~AdminGate(t) THEN Forbidden("admin_delete_product", t, product_id)
        ELSE IF rows = {}
        THEN Answer("admin_delete_product", 404, "Product not found", t, product_id)
        ELSE DeleteAndSweep("admin_delete_product", t, product_id)

\* receipt_<timestamp>_<uuid hex>.pdf
ReceiptName(uuid) == ReceiptPrefix \o IdText(uuid) \o PdfSuffix

generate_receipt(t, has_items) ==
    IF verify_jwt_in_request(t) # "ok" THEN Unauthorized("generate_receipt", t, 0)
    ELSE IF ~has_items THEN Answer("generate_receipt", 400, "No items provided", t, 0)
    ELSE /\ nextUuid <= MaxUuid
         /\ files' = files \cup {ReceiptName(nextUuid)}
         /\ nextUuid' = nextUuid + 1
         /\ receiptSeen' = receiptSeen \cup {[name |-> ReceiptName(nextUuid),
                                                written |-> now, served |-> FALSE]}
         /\ last' = Response("generate_receipt", 200, "Receipt generated successfully", t,
                             0, <<>>, <<>>, "")
         /\ UNCHANGED <<users, nextUserId, products, nextProductId, tokens, nextJti,
                        jwt_blocklist, FAILED_LOGIN_ATTEMPTS, now, failedSeen, inflight>>

\* GET /api/uploads/<filename>: send_file answers with the file when it is in
\* the uploads directory, and raises otherwise; no token is asked for, and
\* the file stays where it is
uploaded_file(filename) ==
    LET found == filename \in files
    IN  /\ last' = [Response("uploaded_file", IF found THEN 200 ELSE 404,
                              IF found THEN "" ELSE "File not found", NoToken, 0,
                              <<>>, <<>>, "")
                     EXCEPT !.file = filename]
        /\ receiptSeen' = {IF r.name = filename /\ found
                           THEN [r EXCEPT !.served = TRUE] ELSE r : r \in receiptSeen}
        /\ UNCHANGED <<users, nextUserId, products, nextProductId, files, nextUuid,
                       tokens, nextJti, jwt_blocklist, FAILED_LOGIN_ATTEMPTS, now,
                       failedSeen, inflight>>

---------------------------------------------------------------------------
(* The product routes and delete_user, one step for each call to Supabase  *)
(* and each operation on the uploads directory; the threads interleave      *)
(* between the steps.                                                        *)

\* the thread moves on inside its handler; no response yet
Proceed(w, rec) ==
    /\ inflight' = [inflight EXCEPT ![w] = rec]
    /\ last' = NoRequest

\* the handler returns its response and the thread is free again
Finish(w, status, msg) ==
    /\ inflight' = [inflight EXCEPT ![w] = Idle]
    /\ last' = Response(inflight[w].op, status, msg, inflight[w].t, inflight[w].arg,
                        <<>>, <<>>, "")

\* what a step leaves alone besides the tables and the directory
sessionVars ==
    <<nextUserId, tokens, nextJti, jwt_blocklist, FAILED_LOGIN_ATTEMPTS, now, failedSeen>>

\* cleanup_old_images: select('image_url') and the set active_images
sweep_select(w) ==
    LET rec == inflight[w]
    IN  /\ rec.pc = "sweep_select"
        /\ Proceed(w, [rec EXCEPT
                         !.pc = "sweep_listdir",
                         !.active_images =
                             {LastSegment(p.image_url) :
                                p \in {q \in products : q.image_url # <<>>}}])
        /\ UNCHANGED <<users, products, nextProductId, files, nextUuid, receiptSeen>>
        /\ UNCHANGED sessionVars

\* cleanup_old_images: os.listdir(UPLOAD_FOLDER)
sweep_listdir(w) ==
    LET rec == inflight[w]
    IN  /\ rec.pc = "sweep_listdir"
        /\ Proceed(w, [rec EXCEPT !.pc = "sweep_loop", !.listing = files])
        /\ UNCHANGED <<users, products, nextProductId, files, nextUuid, receiptSeen>>
        /\ UNCHANGED sessionVars

\* cleanup_old_images: the loop takes the next name of the listing (in the
\* order of os.listdir, which is arbitrary) and tests os.path.isfile; after
\* the last name the handler returns the response that follows its call of
\* cleanup_old_images()
sweep_loop(w) ==
    LET rec == inflight[w]
        answer ==
            IF rec.op = "add_product"
            THEN [status |-> 201, msg |-> "Product added successfully"]
            ELSE IF rec.op = "update_product"
            THEN [status |-> 200, msg |-> "Product updated successfully"]
            ELSE IF rec.op = "delete_user"
            THEN [status |-> 200, msg |-> "User deleted successfully"]
            ELSE [status |-> 200, msg |-> "Product deleted successfully"]
        visit(f) ==
            LET rest == [rec EXCEPT !.listing = rec.listing \ {f}, !.filename = f]
            IN  IF f \notin files THEN rest
                ELSE IF StartsWith(f, ReceiptPrefix)
                THEN [rest EXCEPT !.pc = "sweep_remove"]
                ELSE IF allowed_file(f) /\ f \notin rec.active_images
                THEN [rest EXCEPT !.pc = "sweep_double_check"]
                ELSE rest
    IN  /\ rec.pc = "sweep_loop"
        /\ IF rec.listing = {}
           THEN Finish(w, answer.status, answer.msg)
           ELSE \E f \in rec.listing : Proceed(w, visit(f))
        /\ UNCHANGED <<users, products, nextProductId, files, nextUuid, receiptSeen>>
        /\ UNCHANGED sessionVars

\* cleanup_old_images: the query double_check, ilike('image_url', '%name%')
sweep_double_check(w) ==
    LET rec == inflight[w]
    IN  /\ rec.pc = "sweep_double_check"
        /\ Proceed(w, [rec EXCEPT !.pc = IF ProductsLike(products, rec.filename) = {}
                                         THEN "sweep_remove" ELSE "sweep_loop"])
        /\ UNCHANGED <<users, products, nextProductId, files, nextUuid, receiptSeen>>
        /\ UNCHANGED sessionVars

\* cleanup_old_images: os.remove(file_path); an error (the file is gone
\* already) is caught and printed
sweep_remove(w) ==
    LET rec == inflight[w]
    IN  /\ rec.pc = "sweep_remove"
        /\ files' = files \ {rec.filename}
        /\ receiptSeen' = StillThere(receiptSeen, files')
        /\ Proceed(w, [rec EXCEPT !.pc = "sweep_loop"])
        /\ UNCHANGED <<users, products, nextProductId, nextUuid>>
        /\ UNCHANGED sessionVars

\* add_product up to file.save(file_path): the checks of the request and,
\* when it carries an image, the write of the file
add_product_save(w, t, name, price_text, filename) ==
    LET Reject(status, msg) == Answer("add_product", status, msg, t, 0)
        price == ParseFloat(price_text)
        saved == filename # <<>>
        stored == UploadName(nextUuid, filename)
    IN  /\ inflight[w].pc = "idle"
        /\ IF verify_jwt_in_request(t) # "ok" THEN Unauthorized("add_product", t, 0)
           ELSE IF Strip(name) = <<>> THEN Reject(400, "Product name is required")
           ELSE IF ~price.ok THEN Reject(400, "Invalid price format")
           ELSE IF IsNegative(price) THEN Reject(400, "Price cannot be negative")
           ELSE IF saved /\ ~allowed_file(filename) THEN Reject(400, "Invalid file type")
           ELSE /\ saved => nextUuid <= MaxUuid
                /\ files' = IF saved THEN files \cup {stored} ELSE files
                /\ nextUuid' = IF saved THEN nextUuid + 1 ELSE nextUuid
                /\ Proceed(w, [Idle EXCEPT
                                 !.op = "add_product", !.pc = "insert", !.t = t,
                                 !.name = Strip(name), !.price = Given(price_text),
                                 !.image_url = IF saved THEN ImageUrl(stored) ELSE <<>>])
                /\ UNCHANGED <<users, products, nextProductId, receiptSeen>>
                /\ UNCHANGED sessionVars

\* add_product: create_product(...), the insert into 'products'.  With a
\* price of nan the insert raises and the handler goes on to remove the image
\* it saved.
add_product_insert(w) ==
    LET rec == inflight[w]
        price == ParseFloat(rec.price.val)
        row == [id |-> nextProductId, name |-> rec.name, price |-> StoredPrice(price),
                image_url |-> rec.image_url, user_id |-> rec.t.identity]
    IN  /\ rec.pc = "insert"
        /\ IF price.nan
           THEN /\ IF rec.image_url # <<>>
                   THEN Proceed(w, [rec EXCEPT !.pc = "undo_save"])
                   ELSE Finish(w, 500, "Database error occurred")
                /\ UNCHANGED <<products, nextProductId>>
           ELSE /\ nextProductId <= MaxProductId
                /\ products' = products \cup {row}
                /\ nextProductId' = nextProductId + 1
                /\ Proceed(w, [rec EXCEPT !.pc = "sweep_select", !.arg = nextProductId])
        /\ UNCHANGED <<users, files, nextUuid, receiptSeen>>
        /\ UNCHANGED sessionVars

\* update_product up to the select on id and user_id: the 404, the checks of
\* the form fields
update_product_select(w, t, product_id, name, price, filename) ==
    LET Reject(status, msg) == Answer("update_product", status, msg, t, product_id)
        rows == {p \in products : p.id = product_id /\ p.user_id = t.identity}
        parsed == ParseFloat(price.val)
        saved == filename # <<>> /\ allowed_file(filename)
    IN  /\ inflight[w].pc = "idle"
        /\ IF verify_jwt_in_request(t) # "ok"
           THEN Unauthorized("update_product", t, product_id)
           ELSE IF rows = {} THEN Reject(404, "Product not found or unauthorized")
           ELSE IF price.present /\ ~parsed.ok THEN Reject(400, "Invalid price format")
           ELSE IF price.present /\ IsNegative(parsed)
           THEN Reject(400, "Price cannot be negative")
           ELSE IF ~(name.present \/ price.present \/ saved)
           THEN Reject(200, "No changes to update")
           ELSE /\ Proceed(w, [Idle EXCEPT
                                 !.op = "update_product",
                                 !.pc = IF saved THEN "save" ELSE "update",
                                 !.t = t, !.arg = product_id, !.product_id = product_id,
                                 !.name = IF name.present THEN name.val ELSE <<>>,
                                 !.price = price,
                                 !.filename = IF saved THEN filename ELSE <<>>,
                                 !.old_image_url =
                                     IF saved THEN (FirstRow(rows)).image_url ELSE <<>>])
                /\ UNCHANGED <<users, products, nextProductId, files, nextUuid,
                               receiptSeen>>
                /\ UNCHANGED sessionVars

\* update_product: file.save(file_path) of the new image
update_product_save(w) ==
    LET rec == inflight[w]
        stored == UploadName(nextUuid, rec.filename)
    IN  /\ rec.pc = "save"
        /\ nextUuid <= MaxUuid
        /\ files' = files \cup {stored}
        /\ nextUuid' = nextUuid + 1
        /\ Proceed(w, [rec EXCEPT !.pc = "update", !.image_url = ImageUrl(stored)])
        /\ UNCHANGED <<users, products, nextProductId, receiptSeen>>
        /\ UNCHANGED sessionVars

\* update_product: update(update_data).eq('id', product_id).  When the row
\* is gone the update returns no data and the handler goes on to remove the
\* image it saved; with a price of nan the update raises and the handler
\* answers from its except clause.
update_product_write(w) ==
    LET rec == inflight[w]
        rows == {p \in products : p.id = rec.product_id}
        name == IF rec.name # <<>> THEN Given(rec.name) ELSE Absent
        updated == {UpdatedProduct(p, name, rec.price, rec.image_url) : p \in rows}
        raises == rec.price.present /\ (ParseFloat(rec.price.val)).nan
    IN  /\ rec.pc = "update"
        /\ products' = IF raises THEN products ELSE (products \ rows) \cup updated
        /\ IF raises THEN Finish(w, 500, ExceptionText)
           ELSE IF rows = {}
           THEN IF rec.image_url # <<>>
                THEN Proceed(w, [rec EXCEPT !.pc = "undo_save"])
                ELSE Finish(w, 500, "Failed to update product")
           ELSE Proceed(w, [rec EXCEPT !.pc = IF rec.old_image_url # <<>>
                                             THEN "remove_old" ELSE "sweep_select"])
        /\ UNCHANGED <<users, nextProductId, files, nextUuid, receiptSeen>>
        /\ UNCHANGED sessionVars

\* os.remove of the image the request saved: update_product after its update
\* returned no data, add_product after its insert raised
undo_save(w) ==
    LET rec == inflight[w]
    IN  /\ rec.pc = "undo_save"
        /\ files' = files \ {LastSegment(rec.image_url)}
        /\ receiptSeen' = StillThere(receiptSeen, files')
        /\ Finish(w, 500, IF rec.op = "update_product" THEN "Failed to update product"
                          ELSE "Database error occurred")
        /\ UNCHANGED <<users, products, nextProductId, nextUuid>>
        /\ UNCHANGED sessionVars

\* update_product: os.remove of the image the row named before
update_product_remove_old(w) ==
    LET rec == inflight[w]
    IN  /\ rec.pc = "remove_old"
        /\ files' = files \ {LastSegment(rec.old_image_url)}
        /\ receiptSeen' = StillThere(receiptSeen, files')
        /\ Proceed(w, [rec EXCEPT !.pc = "sweep_select"])
        /\ UNCHANGED <<users, products, nextProductId, nextUuid>>
        /\ UNCHANGED sessionVars

\* delete_product returns to its caller: delete_user_product answers 500
\* when it got no deleted row and sweeps otherwise; delete_user moves to the
\* next product of its loop, and after the last one to the delete of the user
AfterDeleteProduct(w, rec, deleted) ==
    IF rec.op = "delete_user_product"
    THEN IF deleted THEN Proceed(w, [rec EXCEPT !.pc = "sweep_select"])
         ELSE Finish(w, 500, "Failed to delete product")
    ELSE IF rec.pending = {} THEN Proceed(w, [rec EXCEPT !.pc = "delete_user_row"])
         ELSE Proceed(w, [rec EXCEPT !.pc = "delete_product_select",
                                     !.product_id = Min(rec.pending),
                                     !.pending = rec.pending \ {Min(rec.pending)}])

\* delete_user_product up to the select on id and user_id
delete_user_product_select(w, t, product_id) ==
    LET rows == {p \in products : p.id = product_id /\ p.user_id = t.identity}
    IN  /\ inflight[w].pc = "idle"
        /\ IF verify_jwt_in_request(t) # "ok"
           THEN Unauthorized("delete_user_product", t, product_id)
           ELSE IF rows = {}
           THEN Answer("delete_user_product", 404, "Product not found or unauthorized",
                       t, product_id)
           ELSE /\ Proceed(w, [Idle EXCEPT
                                 !.op = "delete_user_product",
                                 !.pc = "delete_product_select", !.t = t,
                                 !.arg = product_id, !.product_id = product_id])
                /\ UNCHANGED <<users, products, nextProductId, files, nextUuid,
                               receiptSeen>>
                /\ UNCHANGED sessionVars

\* delete_product: select('*').eq('id', product_id)
delete_product_select(w) ==
    LET rec == inflight[w]
        product == {p \in products : p.id = rec.product_id}
    IN  /\ rec.pc = "delete_product_select"
        /\ IF product = {} THEN AfterDeleteProduct(w, rec, FALSE)
           ELSE Proceed(w, [rec EXCEPT !.pc = "delete_product_delete",
                                       !.old_image_url = (FirstRow(product)).image_url])
        /\ UNCHANGED <<users, products, nextProductId, files, nextUuid, receiptSeen>>
        /\ UNCHANGED sessionVars

\* delete_product: delete().eq('id', product_id)
delete_product_delete(w) ==
    LET rec == inflight[w]
        product == {p \in products : p.id = rec.product_id}
    IN  /\ rec.pc = "delete_product_delete"
        /\ products' = products \ product
        /\ IF product # {} /\ rec.old_image_url # <<>>
           THEN Proceed(w, [rec EXCEPT !.pc = "delete_product_others"])
           ELSE AfterDeleteProduct(w, rec, product # {})
        /\ UNCHANGED <<users, nextProductId, files, nextUuid, receiptSeen>>
        /\ UNCHANGED sessionVars

\* delete_product: the query other_products, neq('id', product_id) and
\* ilike('image_url', '%filename%')
delete_product_others(w) ==
    LET rec == inflight[w]
        filename == LastSegment(rec.old_image_url)
        other_products == {q \in ProductsLike(products, filename) : q.id # rec.product_id}
    IN  /\ rec.pc = "delete_product_others"
        /\ IF other_products = {}
           THEN Proceed(w, [rec EXCEPT !.pc = "delete_product_remove"])
           ELSE AfterDeleteProduct(w, rec, TRUE)
        /\ UNCHANGED <<users, products, nextProductId, files, nextUuid, receiptSeen>>
        /\ UNCHANGED sessionVars

\* delete_product: os.path.exists and os.remove of the image file
delete_product_remove(w) ==
    LET rec == inflight[w]
    IN  /\ rec.pc = "delete_product_remove"
        /\ files' = files \ {LastSegment(rec.old_image_url)}
        /\ receiptSeen' = StillThere(receiptSeen, files')
        /\ AfterDeleteProduct(w, rec, TRUE)
        /\ UNCHANGED <<users, products, nextProductId, nextUuid>>
        /\ UNCHANGED sessionVars

\* delete_user up to the query of admin_required: the 401 and the 403
delete_user_gate(w, t, user_id) ==
    /\ inflight[w].pc = "idle"
    /\ IF verify_jwt_in_request(t) # "ok" THEN Unauthorized("delete_user", t, user_id)
       ELSE IF ~AdminGate(t) THEN Forbidden("delete_user", t, user_id)
       ELSE /\ Proceed(w, [Idle EXCEPT !.op = "delete_user", !.pc = "delete_user_get",
                                       !.t = t, !.arg = user_id])
            /\ UNCHANGED <<users, products, nextProductId, files, nextUuid, receiptSeen>>
            /\ UNCHANGED sessionVars

\* delete_user: get_user_by_id(user_id)
delete_user_get(w) ==
    LET rec == inflight[w]
        rows == get_user_by_id(users, rec.arg)
    IN  /\ rec.pc = "delete_user_get"
        /\ IF rows = {} THEN Finish(w, 404, "User not found")
           ELSE Proceed(w, [rec EXCEPT !.pc = "delete_user_admins", !.user = rows])
        /\ UNCHANGED <<users, products, nextProductId, files, nextUuid, receiptSeen>>
        /\ UNCHANGED sessionVars

\* delete_user: select('id').eq('is_admin', True) and the last-admin check
\* on the user row read before
delete_user_admins(w) ==
    LET rec == inflight[w]
        admins == {u \in users : u.is_admin}
    IN  /\ rec.pc = "delete_user_admins"
        /\ IF LastAdminCheck(FirstRow(rec.user), admins)
           THEN Finish(w, 400, "Cannot delete the last admin user")
           ELSE Proceed(w, [rec EXCEPT !.pc = "delete_user_products"])
        /\ UNCHANGED <<users, products, nextProductId, files, nextUuid, receiptSeen>>
        /\ UNCHANGED sessionVars

\* delete_user: select('*').eq('user_id', user_id) on 'products', and the
\* start of the loop over the rows
delete_user_products(w) ==
    LET rec == inflight[w]
        owned == {p.id : p \in {q \in products : q.user_id = rec.arg}}
    IN  /\ rec.pc = "delete_user_products"
        /\ AfterDeleteProduct(w, [rec EXCEPT !.pending = owned], TRUE)
        /\ UNCHANGED <<users, products, nextProductId, files, nextUuid, receiptSeen>>
        /\ UNCHANGED sessionVars

\* delete_user: delete().eq('id', user_id) on 'users'; no data when the row
\* is gone already
delete_user_row(w) ==
    LET rec == inflight[w]
        rows == get_user_by_id(users, rec.arg)
    IN  /\ rec.pc = "delete_user_row"
        /\ users' = users \ rows
        /\ IF rows = {} THEN Finish(w, 500, "Failed to delete user")
           ELSE Proceed(w, [rec EXCEPT !.pc = "sweep_select"])
        /\ UNCHANGED <<products, nextProductId, files, nextUuid, receiptSeen>>
        /\ UNCHANGED sessionVars

---------------------------------------------------------------------------
(* Request inputs of the product routes, and the specifications *)

Tea == <<"t", "e", "a">>
ProductNames == {Tea, <<" ">>}

PriceTexts == {<<"0">>, <<"-", "1">>, <<"a", "b", "c">>}

AGif == <<"a", ".", "g", "i", "f">>
\* a client file name equal to the stored name of the first upload of a.gif
StoredAGif == <<"1", "_", "a", ".", "g", "i", "f">>
\* a client file name the pattern %1_a.gif% matches through "_" and case
WildAGif == <<"1", "x", "A", ".", "G", "I", "F">>
NotesTxt == <<"n", ".", "t", "x", "t">>
\* <<>>: the request carries no image
FileNames == {<<>>, AGif, StoredAGif, WildAGif, NotesTxt}

UserIds == 1..MaxUserId
ProductIds == 1..MaxProductId

Next ==
    \/ \E u \in Usernames, p \in Passwords : register(u, p)
    \/ \E ip \in ClientAddrs, u \in Usernames, p \in Passwords : login(ip, u, p)
    \/ \E t \in Presented : logout(t)
    \/ \E t \in Presented : get_products(t)
    \/ Tick
    \/ \E t \in Presented, u \in Usernames \cup {<<>>}, p \in Passwords, a \in BOOLEAN :
          add_user(t, u, p, a)
    \/ \E t \in Presented, id \in UserIds,
          u \in {Absent} \cup {Given(x) : x \in Usernames},
          p \in {Absent} \cup {Given(x) : x \in Passwords},
          a \in {[present |-> FALSE, val |-> FALSE]} \cup {Given(x) : x \in BOOLEAN} :
          update_user(t, id, u, p, a)
    \/ \E t \in Presented, id \in UserIds : delete_user(t, id)
    \/ \E t \in Presented, n \in ProductNames, p \in PriceTexts, f \in FileNames :
          add_product(t, n, p, f)
    \/ \E t \in Presented, id \in ProductIds,
          n \in {Absent} \cup {Given(x) : x \in ProductNames},
          p \in {Absent} \cup {Given(x) : x \in PriceTexts},
          f \in FileNames :
          update_product(t, id, n, p, f)
    \/ \E t \in Presented, id \in ProductIds : delete_user_product(t, id)
    \/ \E t \in Presented, id \in ProductIds : admin_delete_product(t, id)
    \/ \E t \in Presented, i \in BOOLEAN : generate_receipt(t, i)
    \/ \E f \in files \cup FileNames : uploaded_file(f)
    \/ \E t \in Presented : get_all_users(t)
    \/ \E t \in Presented : get_all_products(t)
    \/ \E t \in Presented, id \in UserIds : admin_users_options(t, id)
    \/ \E t \in Presented, id \in ProductIds : admin_products_options(t, id)
    \/ \E t \in Presented, n \in ProductNames, p \in PriceTexts, f \in FileNames,
          outcome \in {"no_data", "raises"} :
          add_product_db_failure(t, n, p, f, outcome)
    \/ \E t \in Presented, id \in ProductIds,
          n \in {Absent} \cup {Given(x) : x \in ProductNames},
          p \in {Absent} \cup {Given(x) : x \in PriceTexts},
          f \in FileNames, outcome \in {"no_data", "raises"} :
          update_product_db_failure(t, id, n, p, f, outcome)
    \/ \E w \in Workers, t \in Presented, n \in ProductNames, p \in PriceTexts,
          f \in FileNames :
          add_product_save(w, t, n, p, f)
    \/ \E w \in Workers, t \in Presented, id \in ProductIds,
          n \in {Absent} \cup {Given(x) : x \in ProductNames},
          p \in {Absent} \cup {Given(x) : x \in PriceTexts},
          f \in FileNames :
          update_product_select(w, t, id, n, p, f)
    \/ \E w \in Workers, t \in Presented, id \in ProductIds :
          delete_user_product_select(w, t, id)
    \/ \E w \in Workers, t \in Presented, id \in UserIds : delete_user_gate(w, t, id)
    \/ \E w \in Workers :
          \/ add_product_insert(w)
          \/ update_product_save(w) \/ update_product_write(w)
          \/ update_product_remove_old(w) \/ undo_save(w)
          \/ delete_product_select(w) \/ delete_product_delete(w)
          \/ delete_product_others(w) \/ delete_product_remove(w)
          \/ delete_user_get(w) \/ delete_user_admins(w)
          \/ delete_user_products(w) \/ delete_user_row(w)
          \/ sweep_select(w) \/ sweep_listdir(w) \/ sweep_loop(w)
          \/ sweep_double_check(w) \/ sweep_remove(w)

Spec == Init /\ [][Next]_vars

(* Specifications over part of the requests.  Each takes                  *)
(* handlers of Spec and drives them with fewer request bodies.             *)

NoFlag == [present |-> FALSE, val |-> FALSE]

\* accounts: the admin routes over users, called with the tokens of the
\* seeded admin, with a product for delete_user to cascade over
NextAccounts ==
    \/ login("10.0.0.1", AdminUsername, AdminPassword)
    \/ \E t \in tokens, a \in BOOLEAN : add_user(t, Ab, StrongPassword, a)
    \/ \E t \in tokens, id \in UserIds, a \in {Given(TRUE), Given(FALSE)} :
          update_user(t, id, Absent, Absent, a)
    \/ \E t \in Presented, id \in UserIds : delete_user(t, id)
    \/ \E t \in tokens : add_product(t, Tea, <<"0">>, AGif)

SpecAccounts == Init /\ [][NextAccounts]_vars

\* credentials: registration and login, with the admin routes that free and
\* take user names
NextCredentials ==
    \/ \E u \in Usernames, p \in Passwords : register(u, p)
    \/ \E u \in {AdminUsername, Bob}, p \in {AdminPassword, StrongPassword} :
          login("10.0.0.1", u, p)
    \/ \E t \in tokens, id \in UserIds, p \in {Absent, Given(StrongPassword)} :
          update_user(t, id, Given(Bob), p, NoFlag)
    \/ \E t \in tokens : add_user(t, AdminUsername, StrongPassword, FALSE)

SpecCredentials == Init /\ [][NextCredentials]_vars

\* catalog: the product routes of one registered user, receipts and the
\* sweep
NextCatalog ==
    \/ register(Bob, StrongPassword)
    \/ \E t \in tokens, f \in FileNames : add_product(t, Tea, <<"0">>, f)
    \/ \E t \in tokens, id \in ProductIds, f \in {<<>>, AGif, StoredAGif} :
          update_product(t, id, Absent, Given(<<"0">>), f)
    \/ \E t \in tokens, id \in ProductIds : delete_user_product(t, id)
    \/ \E t \in tokens : generate_receipt(t, TRUE)

SpecCatalog == Init /\ [][NextCatalog]_vars

\* throttle: logins from two client addresses, and the passing of time
NextThrottle ==
    \/ \E ip \in ClientAddrs, p \in {AdminPassword, WeakPassword} :
          login(ip, AdminUsername, p)
    \/ Tick

SpecThrottle == Init /\ [][NextThrottle]_vars

\* sessions: login, an authenticated request, logout, and the passing of time
NextSession ==
    \/ login("10.0.0.1", AdminUsername, AdminPassword)
    \/ \E t \in Presented : get_products(t)
    \/ \E t \in Presented : logout(t)
    \/ Tick

SpecSession == Init /\ [][NextSession]_vars

\* gate: the routes behind admin_required, called with the tokens of the
\* seeded admin while admins are made, unmade and deleted
NextGate ==
    \/ login("10.0.0.1", AdminUsername, AdminPassword)
    \/ \E t \in tokens : add_user(t, Ab, StrongPassword, TRUE)
    \/ \E t \in tokens, id \in UserIds, a \in BOOLEAN :
          update_user(t, id, Absent, Absent, Given(a))
    \/ \E t \in tokens, id \in UserIds : delete_user(t, id)
    \/ \E t \in tokens : get_all_users(t)
    \/ \E t \in tokens : get_all_products(t)
    \/ \E t \in tokens, id \in ProductIds : admin_delete_product(t, id)
    \/ \E t \in tokens : add_product(t, Tea, <<"0">>, <<>>)

SpecGate == Init /\ [][NextGate]_vars

\* preflight: every method of the routes under /api/admin/, called with the
\* tokens of the seeded admin and of a registered user
NextPreflight ==
    \/ register(Bob, StrongPassword)
    \/ login("10.0.0.1", AdminUsername, AdminPassword)
    \/ \E t \in tokens, id \in UserIds, a \in BOOLEAN :
          update_user(t, id, Absent, Absent, Given(a))
    \/ \E t \in tokens : get_all_users(t)
    \/ \E t \in tokens : get_all_products(t)
    \/ \E t \in tokens, id \in UserIds : admin_users_options(t, id)
    \/ \E t \in tokens, id \in ProductIds : admin_products_options(t, id)

SpecPreflight == Init /\ [][NextPreflight]_vars

\* open: the routes that are not behind admin_required
NextOpen ==
    \/ register(Bob, StrongPassword)
    \/ login("10.0.0.1", Bob, StrongPassword)
    \/ \E t \in tokens : get_products(t)
    \/ \E t \in tokens : add_product(t, Tea, <<"0">>, AGif)
    \/ \E t \in tokens, id \in ProductIds :
          update_product(t, id, Given(Tea), Absent, <<>>)
    \/ \E t \in tokens, id \in ProductIds : delete_user_product(t, id)
    \/ \E t \in tokens : generate_receipt(t, TRUE)
    \/ \E f \in files \cup {AGif} : uploaded_file(f)

SpecOpen == Init /\ [][NextOpen]_vars

Seven == <<"7">>
MinusOne == <<"-", "1">>
Nan == <<"n", "a", "n">>

\* prices: product create and update with prices below, at and above zero,
\* and a price that is not a number
NextPrices ==
    \/ register(Bob, StrongPassword)
    \/ \E t \in tokens, p \in {<<"0">>, Seven, MinusOne, Nan} :
          add_product(t, Tea, p, <<>>)
    \/ \E t \in tokens, id \in ProductIds, p \in {<<"0">>, Seven, MinusOne, Nan} :
          update_product(t, id, Absent, Given(p), <<>>)
    \/ \E t \in tokens, id \in ProductIds : delete_user_product(t, id)

SpecPrices == Init /\ [][NextPrices]_vars

Cup == <<"c", "u", "p">>

\* ownership: the product routes called by a registered user and by the
\* seeded admin on each other's products
NextOwnership ==
    \/ register(Bob, StrongPassword)
    \/ login("10.0.0.1", AdminUsername, AdminPassword)
    \/ \E t \in tokens : add_product(t, Tea, <<"0">>, AGif)
    \/ \E t \in tokens, id \in ProductIds, f \in {<<>>, AGif} :
          update_product(t, id, Given(Cup), Absent, f)
    \/ \E t \in tokens : get_products(t)

SpecOwnership == Init /\ [][NextOwnership]_vars

\* cascade: users with products whose image names overlap, and the admin's
\* delete-user route
NextCascade ==
    \/ register(Bob, StrongPassword)
    \/ login("10.0.0.1", AdminUsername, AdminPassword)
    \/ \E t \in tokens, f \in {AGif, StoredAGif} : add_product(t, Tea, <<"0">>, f)
    \/ \E t \in tokens, id \in UserIds : delete_user(t, id)

SpecCascade == Init /\ [][NextCascade]_vars

\* failures: the product routes of one registered user when the write to
\* the products table returns no data or raises
DbOutcomes == {"no_data", "raises"}

NextFailures ==
    \/ register(Bob, StrongPassword)
    \/ \E t \in tokens, p \in {<<"0">>, Nan} : add_product(t, Tea, p, AGif)
    \/ \E t \in tokens, f \in {<<>>, AGif}, outcome \in DbOutcomes :
          add_product_db_failure(t, Tea, <<"0">>, f, outcome)
    \/ \E t \in tokens, id \in ProductIds, p \in {<<"0">>, Nan}, f \in {<<>>, AGif} :
          update_product(t, id, Absent, Given(p), f)
    \/ \E t \in tokens, id \in ProductIds, f \in {<<>>, AGif}, outcome \in DbOutcomes :
          update_product_db_failure(t, id, Given(Tea), Absent, f, outcome)

SpecFailures == Init /\ [][NextFailures]_vars

\* usernames: the three routes that write a username, asked for names that
\* are free and names that are taken
NextUsernames ==
    \/ \E u \in {Bob, BobPadded, Ab} : register(u, StrongPassword)
    \/ login("10.0.0.1", AdminUsername, AdminPassword)
    \/ \E t \in tokens, u \in {Bob, Ab, AdminUsername} :
          add_user(t, u, StrongPassword, FALSE)
    \/ \E t \in tokens, id \in UserIds, u \in {Bob, Ab, AdminUsername} :
          update_user(t, id, Given(u), Absent, NoFlag)

SpecUsernames == Init /\ [][NextUsernames]_vars

\* race: the product routes of one registered user on two threads, step by
\* step
NextRace ==
    \/ register(Bob, StrongPassword)
    \/ \E w \in Workers, t \in tokens : add_product_save(w, t, Tea, <<"0">>, AGif)
    \/ \E w \in Workers : add_product_insert(w)
    \/ \E w \in Workers, t \in tokens, id \in ProductIds :
          update_product_select(w, t, id, Absent, Absent, AGif)
    \/ \E w \in Workers : update_product_save(w)
    \/ \E w \in Workers : update_product_write(w)
    \/ \E w \in Workers : update_product_remove_old(w)
    \/ \E w \in Workers : undo_save(w)
    \/ \E w \in Workers, t \in tokens, id \in ProductIds :
          delete_user_product_select(w, t, id)
    \/ \E w \in Workers : delete_product_select(w)
    \/ \E w \in Workers : delete_product_delete(w)
    \/ \E w \in Workers : delete_product_others(w)
    \/ \E w \in Workers : delete_product_remove(w)
    \/ \E w \in Workers : sweep_select(w)
    \/ \E w \in Workers : sweep_listdir(w)
    \/ \E w \in Workers : sweep_loop(w)
    \/ \E w \in Workers : sweep_double_check(w)
    \/ \E w \in Workers : sweep_remove(w)

SpecRace == Init /\ [][NextRace]_vars

\* two admins: the seeded admin makes a second one, both log in, and their
\* delete_user requests run on two threads, step by step.  No product is
\* created, so the loop over the user's products is empty and
\* the sweep finds an empty directory.
NextTwoAdmins ==
    \/ \E u \in {AdminUsername, Ab} :
          login("10.0.0.1", u, IF u = Ab THEN StrongPassword ELSE AdminPassword)
    \/ \E t \in tokens : add_user(t, Ab, StrongPassword, TRUE)
    \/ \E w \in Workers, t \in tokens, id \in UserIds : delete_user_gate(w, t, id)
    \/ \E w \in Workers : delete_user_get(w)
    \/ \E w \in Workers : delete_user_admins(w)
    \/ \E w \in Workers : delete_user_products(w)
    \/ \E w \in Workers : delete_user_row(w)
    \/ \E w \in Workers : sweep_select(w)
    \/ \E w \in Workers : sweep_listdir(w)
    \/ \E w \in Workers : sweep_loop(w)

SpecTwoAdmins == Init /\ [][NextTwoAdmins]_vars

---------------------------------------------------------------------------
(* Properties *)

Admins == {u \in users : u.is_admin}

\* the file a product row's image_url names
ImageFile(p) == LastSegment(p.image_url)

\* the rows whose image_url names exactly the file f
Referencing(ps, f) == {p \in ps : p.image_url # <<>> /\ ImageFile(p) = f}

\* the last request ran cleanup_old_images to its end
Swept ==
    \/ last.op = "add_product" /\ last.status = 201
    \/ last.op = "update_product" /\ last.msg = "Product updated successfully"
    \/ last.op \in {"delete_user_product", "admin_delete_product", "delete_user"}
       /\ last.status = 200

\* the step is a successful delete of product p through one of the two
\* product delete routes
DeletesProduct(p) ==
    /\ last'.op \in {"delete_user_product", "admin_delete_product"}
    /\ last'.status = 200
    /\ last'.arg = p.id
    /\ p \notin products'

\* C1: at least one user with the admin flag exists in every state reachable
\* by the admin user operations, starting from a state with an admin.
C1_AdminAlwaysExists == Admins # {}

\* C2: delete_user on the only admin is refused (400 for a caller the admin
\* gate lets through) and leaves users, products and files as they were; on
\* an admin that is not the only one it answers 200 and the user is gone.
C2_DeleteLastAdminRejected ==
    [][\A id \in UserIds, t \in Presented :
         (/\ last'.op = "delete_user" /\ last'.arg = id /\ last'.jti = t.jti
          /\ \E u \in Admins : u.id = id)
         => /\ Cardinality(Admins) = 1
               => /\ last'.status # 200
                  /\ (verify_jwt_in_request(t) = "ok" /\ AdminGate(t)) => last'.status = 400
                  /\ users' = users /\ products' = products /\ files' = files
            /\ (Cardinality(Admins) > 1 /\ verify_jwt_in_request(t) = "ok" /\ AdminGate(t))
               => /\ last'.status = 200
                  /\ get_user_by_id(users', id) = {}]_vars

\* a delete_user on the only admin has just been refused
C2_Witness ==
    /\ last.op = "delete_user" /\ last.status = 400
    /\ \E u \in Admins : u.id = last.arg
    /\ Cardinality(Admins) = 1
    /\ products # {}

\* C3 as stated: when P is the only product whose image_url names F, deleting
\* P (the route ends with the sweep) removes F; when a second product names F
\* too, delete_product on P leaves F.
C3_Original ==
    [][\A p \in products :
         (DeletesProduct(p) /\ p.image_url # <<>> /\ ImageFile(p) \in files)
         => /\ Referencing(products, ImageFile(p)) = {p} => ImageFile(p) \notin files'
            /\ Referencing(products, ImageFile(p)) # {p}
               => ImageFile(p) \in (delete_product(products, files, p.id)).files]_vars

\* C3 as amended: deleting P removes its image file F when no other
\* product's image_url matches ilike '%F%'; when another product's image_url
\* matches (naming F is one way to match), neither delete_product on P nor
\* the sweep that follows removes F.
C3_ImageReclaimedUnlessMatched ==
    [][\A p \in products :
         (DeletesProduct(p) /\ p.image_url # <<>> /\ ImageFile(p) \in files)
         => /\ ProductsLike(products \ {p}, ImageFile(p)) = {}
               => ImageFile(p) \notin files'
            /\ ProductsLike(products \ {p}, ImageFile(p)) # {}
               => /\ ImageFile(p) \in (delete_product(products, files, p.id)).files
                  /\ ImageFile(p) \in files']_vars

\* a product has just been deleted and its image file is still in the
\* uploads directory, kept by another product's matching image_url
C3_Witness ==
    /\ last.op \in {"delete_user_product", "admin_delete_product"}
    /\ last.status = 200
    /\ \E f \in files : Referencing(products, f) = {} /\ ProductsLike(products, f) # {}

\* C4 as stated: after a sweep the uploads directory holds no receipt_ file
\* and no file that no product's image_url names.
C4_Original ==
    Swept => \A f \in files :
                /\ ~StartsWith(f, ReceiptPrefix)
                /\ Referencing(products, f) # {}

\* C4 as amended: after a sweep the uploads directory holds no receipt_ file
\* and no file with an allowed image extension that no product's image_url
\* matches (ilike '%name%').
C4_SweepLeavesOnlyMatched ==
    Swept => \A f \in files :
                /\ ~StartsWith(f, ReceiptPrefix)
                /\ allowed_file(f) => ProductsLike(products, f) # {}

\* a sweep run by update_product has just ended, and it left a file that no
\* product names: only a pattern match keeps it
C4_Witness ==
    /\ last.op = "update_product" /\ Swept
    /\ \E f \in files : Referencing(products, f) = {}

\* C5: a second sweep with no change in between deletes nothing: sweeping the
\* swept directory gives the swept directory, and a directory a handler has
\* just swept is left as it is by another sweep.
C5_SweepIdempotent ==
    /\ cleanup_old_images(products, cleanup_old_images(products, files))
          = cleanup_old_images(products, files)
    /\ Swept => cleanup_old_images(products, files) = files

\* a state where the first sweep has two files or more to delete
C5_Witness ==
    Cardinality(files \ cleanup_old_images(products, files)) >= 2

\* C6: once five failed logins from one address lie within LOCKOUT_TIME, a
\* further login from that address within LOCKOUT_TIME of the last failure
\* is answered 429, whatever its credentials.
C6_LockoutAfterFiveFailures ==
    [][\A ip \in ClientAddrs :
         (/\ last'.op = "login" /\ last'.ip = ip
          /\ failedSeen[ip].n >= MAX_FAILED_ATTEMPTS
          /\ now - failedSeen[ip].latest < LOCKOUT_TIME)
         => last'.status = 429]_vars

\* C7: after register accepts (username, password), login with the same pair
\* answers 200 and login with that username and any other password does not.
C7_RegisterThenLogin ==
    (last.op = "register" /\ last.status = 201)
    => /\ (login_response(users, last.username, last.password)).status = 200
       /\ \A q \in Passwords \ {last.password} :
             (login_response(users, last.username, q)).status # 200

\* C8: for a non-empty username and password, login answers the same when
\* the user exists with another password as when no such user exists.
C8_LoginIndistinguishable ==
    \A u \in Usernames, p \in Passwords \ {<<>>} :
        LET named == get_user_by_username(users, Strip(u))
        IN  (named # {} /\ ~check_password_hash((FirstRow(named)).password, p))
            => login_response(users, u, p) = login_response(users \ named, u, p)

\* C9: register refuses a password that fails is_password_valid, and then
\* stores no user and issues no token.
C9_WeakPasswordRejected ==
    [][(last'.op = "register" /\ ~is_password_valid(last'.password))
       => /\ last'.status # 201
          /\ users' = users
          /\ tokens' = tokens]_vars

AdminOps ==
    {"get_all_users", "add_user", "update_user", "delete_user", "get_all_products",
     "admin_delete_product"}

\* the users row of the token's identity exists and its is_admin is true
StoredAdmin(t) == \E u \in users : u.id = t.identity /\ u.is_admin

\* C11: a request to an admin route with a valid token runs the handler body
\* exactly when the token's user exists now with is_admin true; otherwise it
\* is answered 403 and users, products and files stay as they were.
C11_GateReadsStoredFlag ==
    [][\A t \in tokens :
         (last'.op \in AdminOps /\ last'.jti = t.jti /\ verify_jwt_in_request(t) = "ok")
         => IF StoredAdmin(t) THEN last'.status \notin {401, 403}
            ELSE /\ last'.status = 403
                 /\ users' = users /\ products' = products /\ files' = files]_vars

\* an admin route has just answered 403 to a token issued with the admin
\* claim whose user has since been deleted
C11_Witness ==
    /\ last.op \in AdminOps /\ last.status = 403
    /\ \E t \in tokens : /\ t.jti = last.jti /\ t.is_admin
                          /\ get_user_by_id(users, t.identity) = {}
    /\ products # {}

\* every route registered under /api/admin/, with every method
AdminRouteOps == AdminOps \cup {"admin_users_options", "admin_products_options"}

\* C12: a request to a route under /api/admin/ with a valid token that does
\* not carry the admin claim is answered 403.
C12_NoAdminClaimForbidden ==
    [][\A t \in tokens :
         (/\ last'.op \in AdminRouteOps /\ last'.jti = t.jti
          /\ ~t.is_admin /\ verify_jwt_in_request(t) = "ok")
         => last'.status = 403]_vars

\* the routes a request reaches without passing admin_required
OpenOps ==
    {"register", "login", "get_products", "add_product", "update_product",
     "delete_user_product", "generate_receipt", "uploaded_file"}

\* C13: a request to a route outside the admin gate leaves the stored
\* is_admin of every user as it was and adds no user with is_admin set; a
\* register that succeeds adds exactly one user, with is_admin false.
C13_NoEscalationOutsideGate ==
    [][last'.op \in OpenOps
       => /\ \A u \in users' \ users : ~u.is_admin
          /\ \A v \in users : \A u \in users' : u.id = v.id => u.is_admin = v.is_admin
          /\ (last'.op = "register" /\ last'.status = 201)
             => /\ Cardinality(users' \ users) = 1
                /\ users \subseteq users']_vars

\* register has just stored a user, without the admin flag, next to an admin
C13_Witness ==
    /\ last.op = "register" /\ last.status = 201
    /\ \E u \in users : u.username = Strip(last.username) /\ ~u.is_admin
    /\ Admins # {}

\* C14: every product of the catalog has a price that is a number >= 0
\* (prices below 0 are among the requests made in every state), and a product
\* create or update that is answered 400 leaves the catalog and the uploads
\* directory as they were.
C14_PriceNeverNegative ==
    /\ [](\A p \in products : ~p.price.nan /\ p.price.val >= 0)
    /\ [][(last'.op \in {"add_product", "update_product"} /\ last'.status = 400)
          => products' = products /\ files' = files]_vars

\* a price below 0 has just been refused by update_product while the catalog
\* holds a product created or updated with price 0
C14_Witness ==
    /\ last.op = "update_product" /\ last.status = 400
    /\ last.msg = "Price cannot be negative"
    /\ \E p \in products : p.price.val = 0

\* C15: update_product with a valid token and a well-formed change updates
\* the product (200) when the caller owns it or is an admin, and otherwise
\* answers an error and leaves products and files as they were.
C15_OwnerOrAdminUpdates ==
    [][\A t \in tokens, p \in products :
         (/\ last'.op = "update_product" /\ last'.jti = t.jti /\ last'.arg = p.id
          /\ verify_jwt_in_request(t) = "ok")
         => IF p.user_id = t.identity \/ StoredAdmin(t)
            THEN /\ last'.status = 200
                 /\ \E q \in products' : q.id = p.id /\ q.name = Cup
            ELSE /\ last'.status >= 400
                 /\ products' = products /\ files' = files]_vars

\* C16: get_products with a valid token answers 200 with exactly the products
\* whose user_id is the token's identity: all of them, and no other.
C16_ListIsOwnProducts ==
    [][\A t \in tokens :
         (last'.op = "get_products" /\ last'.jti = t.jti
          /\ verify_jwt_in_request(t) = "ok")
         => /\ last'.status = 200
            /\ \A p \in products : p \in last'.rows <=> p.user_id = t.identity]_vars

\* a listing has just returned a product while the catalog holds a product of
\* another user
C16_Witness ==
    /\ last.op = "get_products" /\ last.status = 200
    /\ last.rows # {}
    /\ products \ last.rows # {}

\* the step is a successful delete_user
DeletesUser == last'.op = "delete_user" /\ last'.status = 200

\* the products of the user a delete_user step names
OwnedByTarget == {p \in products : p.user_id = last'.arg}

\* the order of the cascade: the user's products go first, each through
\* delete_product, then the user row, and the sweep runs last, over the
\* catalog and the directory the product deletions left
CascadeOrder ==
    LET d == DeleteProducts(products, files, {p.id : p \in OwnedByTarget})
    IN  /\ products' = d.products
        /\ \A u \in users' : u.id # last'.arg
        /\ files' = cleanup_old_images(products', d.files)

\* C17 as stated: a successful delete_user deletes the user's products, then
\* the user row, then sweeps; afterwards no product of the user remains and
\* no image file of those products is in the uploads directory.
C17_Original ==
    [][DeletesUser
       => /\ CascadeOrder
          /\ \A p \in products' : p.user_id # last'.arg
          /\ \A p \in OwnedByTarget :
                p.image_url # <<>> => ImageFile(p) \notin files']_vars

\* C17 as amended: the same order and no product of the user remains; an
\* image file of those products is gone when no remaining product's
\* image_url matches ilike '%name%', and it stays when one matches.
C17_CascadeThenSweep ==
    [][DeletesUser
       => /\ CascadeOrder
          /\ \A p \in products' : p.user_id # last'.arg
          /\ \A p \in OwnedByTarget :
                (p.image_url # <<>> /\ ImageFile(p) \in files)
                => (ImageFile(p) \in files'
                    <=> ProductsLike(products', ImageFile(p)) # {})]_vars

\* a user who owned a product with an image has just been deleted, and a
\* file that no remaining product names is still in the uploads directory
C17_Witness ==
    /\ last.op = "delete_user" /\ last.status = 200
    /\ products # {}
    /\ \E f \in files : Referencing(products, f) = {} /\ ProductsLike(products, f) # {}

\* C18: when add_product or update_product answers 500 after the write to the
\* products table failed, the uploads directory holds no file it did not hold
\* before the request: the image the request saved is gone again.
C18_OrphanRemovedOnFailure ==
    [][(last'.op \in {"add_product", "update_product"} /\ last'.status = 500)
       => files' \subseteq files]_vars

\* C19: a receipt file leaves the uploads directory only after uploaded_file
\* has served it or after time has passed since generate_receipt wrote it;
\* until then a request for its URL is answered with the file.
C19_ReceiptKeptUntilServed ==
    [][\A r \in receiptSeen :
         /\ r.name \notin files' => r.served \/ now' > r.written
         /\ (last'.op = "uploaded_file" /\ last'.file = r.name) => last'.status = 200]_vars

\* C20: no two user rows have the same username (compared exactly), and a
\* register, add_user or update_user answered 409 leaves the users table as
\* it was.
C20_UsernamesUnique ==
    /\ [](\A u, v \in users : u.username = v.username => u = v)
    /\ [][(last'.op \in {"register", "add_user", "update_user"} /\ last'.status = 409)
          => users' = users]_vars

\* an update_user asking for a username another row holds has just been
\* answered 409
C20_Witness ==
    /\ last.op = "update_user" /\ last.status = 409
    /\ Cardinality(users) >= 2
    /\ \E u \in users : u.id = last.arg

\* C21: a response with status 500 carries one of the fixed messages the
\* handlers write out themselves, never the text of the exception that was
\* raised.
C21_GenericMessageOn500 ==
    LET FixedMessages ==
            {"Database connection error. Please try again later.",
             "Failed to create user", "Database error occurred",
             "An error occurred during registration", "Admin user not found",
             "Database connection error", "An error occurred during login",
             "Failed to save image", "Failed to create product in database",
             "Failed to update product", "Failed to delete product",
             "Failed to generate receipt", "Failed to update user",
             "Failed to delete user", "Internal server error"}
    IN  last.status = 500 => last.msg \in FixedMessages /\ last.msg # ExceptionText

\* C22: whatever the interleaving of the steps of product create, update,
\* delete and the sweep, every product with an image_url names a file that is
\* in the uploads directory.
C22_ImageFileExists ==
    \A p \in products : p.image_url # <<>> => ImageFile(p) \in files

\* C23: when the users table holds two admins and their deletions run at the
\* same time, step by step, an admin is left once both requests have returned.
C23_OneAdminSurvivesRace ==
    (\A w \in Workers : inflight[w].pc = "idle") => Admins # {}

\* C24: the token a successful login or register issues carries the id of the
\* stored user of that username as its identity and that row's is_admin as
\* its is_admin claim (the response body repeats the same two values).
C24_TokenMatchesStoredFlag ==
    [][(last'.op \in {"login", "register"} /\ last'.status \in {200, 201})
       => \A t \in tokens' \ tokens :
            \E u \in users' : /\ u.username = Strip(last'.username)
                              /\ u.id = t.identity
                              /\ u.is_admin = t.is_admin]_vars

====
